---- MODULE Spec2Model ----
(***************************************************************************)
(* airflow/providers/celery/executors/default_celery.py                    *)
(*                                                                         *)
(* The module is a script executed once at import time.  Each module-level *)
(* statement (or try block) is one action; pc is the position of the       *)
(* import.  Python str values are TLA+ strings, dicts are functions whose  *)
(* domain is the key set, and a call on the configuration object `conf`    *)
(* draws its outcome (a value or a raised exception) when the call is made *)
(* and records it in conf, so that the result can be compared with what    *)
(* was read.                                                               *)
(***************************************************************************)
EXTENDS Integers, Sequences, FiniteSets, TLC

VARIABLES
    pc,                                  \* statement the import is at
    conf,                                \* outcome of each conf read made so far
    broker_url,                          \* line 36
    broker_transport_options,            \* line 38
    broker_transport_options_for_celery, \* line 43
    result_backend,                      \* lines 54/57
    DEFAULT_CELERY_CONFIG,               \* line 59
    celery_ssl_active,                   \* line 86
    log,                                 \* records emitted on the module logger
    raised                               \* exception that ended the import, if any

vars == <<pc, conf, broker_url, broker_transport_options,
          broker_transport_options_for_celery, result_backend,
          DEFAULT_CELERY_CONFIG, celery_ssl_active, log, raised>>

(***************************************************************************)
(* Bounds of the input space.                                              *)
(***************************************************************************)
\* a broker URL is a concatenation of at most MaxUrlParts fragments
MaxUrlParts == 2

(***************************************************************************)
(* Python values.                                                          *)
(***************************************************************************)
EmptyDict == [k \in {} |-> 0]

PyInt(n) == [type |-> "int", val |-> n]
PyStr(s) == [type |-> "str", val |-> s]
PyDict(d) == [type |-> "dict", val |-> d]

\* isinstance(v, (dict, str))
IsDictOrStr(v) == v.type \in {"dict", "str"}

\* isinstance(v, dict)
IsDict(v) == v.type = "dict"

\* d[k] = v on a dict
DictSet(d, k, v) == [x \in DOMAIN d \cup {k} |-> IF x = k THEN v ELSE d[x]]

\* str.startswith(prefix)
StartsWith(s, prefix) ==
    /\ Len(s) >= Len(prefix)
    /\ SubSeq(s, 1, Len(prefix)) = prefix

\* `sub in s` on str
Contains(s, sub) ==
    \E i \in 1..(Len(s) - Len(sub) + 1) : SubSeq(s, i, i + Len(sub) - 1) = sub

\* One alternative of a regular expression of the shape  pre opt? post
Alt(pre, opt, post) == [pre |-> pre, opt |-> opt, post |-> post]

\* re2.search(pattern, s) is not None, pattern being a set of alternatives
Re2Search(pattern, s) ==
    \E a \in pattern :
        \/ Contains(s, a.pre \o a.post)
        \/ Contains(s, a.pre \o a.opt \o a.post)

(***************************************************************************)
(* Exceptions.                                                             *)
(***************************************************************************)
NoException == [type |-> "None", msg |-> ""]

Exc(type, msg) == [type |-> type, msg |-> msg]

\* the classes an exception of class t is an instance of
Bases(t) ==
    CASE t = "AirflowConfigException" ->
             {"AirflowConfigException", "AirflowException", "Exception"}
      [] t = "AirflowException" -> {"AirflowException", "Exception"}
      [] t = "ValueError" -> {"ValueError", "Exception"}
      [] OTHER -> {"Exception"}

\* `except handler:` catches exception e
Catches(handler, e) == handler \in Bases(e.type)

(***************************************************************************)
(* Outcomes of calls on conf.                                              *)
(***************************************************************************)
Unread == [kind |-> "unread"]
Value(v) == [kind |-> "value", val |-> v]
Absent == [kind |-> "absent"]
Raises(type, msg) == [kind |-> "raises", exc |-> Exc(type, msg)]

Options ==
    {"BROKER_URL", "celery_broker_transport_options", "RESULT_BACKEND",
     "SQL_ALCHEMY_CONN", "worker_prefetch_multiplier", "DEFAULT_QUEUE",
     "task_track_started", "result_backend_sqlalchemy_engine_options",
     "WORKER_CONCURRENCY", "worker_enable_remote_control",
     "SSL_ACTIVE", "SSL_KEY", "SSL_CERT", "SSL_CACERT"}

NotFound(option) ==
    Raises("AirflowConfigException", "option not found: " \o option)

RECURSIVE Concats(_, _)
\* every concatenation of at most n members of the set frags
Concats(frags, n) ==
    IF n = 0 THEN {""}
    ELSE LET shorter == Concats(frags, n - 1)
         IN  shorter \cup {s \o f : s \in shorter, f \in frags}

BrokerFragments ==
    {"amqp://", "redis://", "rediss://", "sqs://", "sentinel://", "h"}

BrokerUrls == Concats(BrokerFragments, MaxUrlParts)

BrokerUrlOutcomes ==
    {Value(u) : u \in BrokerUrls} \cup {NotFound("BROKER_URL")}

\* what getsection("celery_broker_transport_options") can return: None when
\* the section does not exist, else a dict over some of these keys
SectionKeys == {"visibility_timeout", "sentinel_kwargs", "region"}

SectionValues(k) ==
    CASE k = "visibility_timeout" -> {PyInt(3600)}
      [] k = "sentinel_kwargs" ->
             {PyDict("password" :> PyStr("pw")), PyStr("{password: pw}")}
      [] OTHER -> {PyStr("eu-west-1")}

Sections ==
    UNION {{s \in [keys -> UNION {SectionValues(k) : k \in keys}] :
               \A k \in keys : s[k] \in SectionValues(k)} :
           keys \in SUBSET SectionKeys}

None == [kind |-> "none"]

\* `x or {}` on what getsection returned
OrEmptyDict(r) == IF r.kind = "value" THEN r.val ELSE EmptyDict

SectionOutcomes == {Value(s) : s \in Sections} \cup {None}

BackendUrls ==
    {"db+postgresql://h", "redis://h", "rediss://h", "amqp://h", "rpc://",
     "sqla+rpc://h", "sqs://h"}

ResultBackendOutcomes == {Value(u) : u \in BackendUrls} \cup {Absent}

SqlAlchemyConns == {"postgresql://h", "redis://h"}

SqlAlchemyConnOutcomes ==
    {Value(u) : u \in SqlAlchemyConns} \cup {NotFound("SQL_ALCHEMY_CONN")}

(***************************************************************************)
(* Initial state: nothing read, no name bound.  A name that is not bound   *)
(* yet holds a placeholder of its type; DEFAULT_CELERY_CONFIG is never     *)
(* empty once line 59 has run.                                             *)
(***************************************************************************)
Init ==
    /\ pc = "broker_url"
    /\ conf = [o \in Options |-> Unread]
    /\ broker_url = ""
    /\ broker_transport_options = EmptyDict
    /\ broker_transport_options_for_celery = EmptyDict
    /\ result_backend = ""
    /\ DEFAULT_CELERY_CONFIG = EmptyDict
    /\ celery_ssl_active = FALSE
    /\ log = << >>
    /\ raised = NoException

\* record the outcome of reading option o
Read(o, outcome) == conf' = [conf EXCEPT ![o] = outcome]

\* the import ends with exception e
Fail(e) == pc' = "failed" /\ raised' = e

\* line 36: broker_url = conf.get("celery", "BROKER_URL")
ReadBrokerUrl ==
    /\ pc = "broker_url"
    /\ \E r \in BrokerUrlOutcomes :
        /\ Read("BROKER_URL", r)
        /\ IF r.kind = "value"
           THEN /\ broker_url' = r.val
                /\ pc' = "transport_options"
                /\ UNCHANGED raised
           ELSE /\ Fail(r.exc)
                /\ UNCHANGED broker_url
    /\ UNCHANGED <<broker_transport_options, broker_transport_options_for_celery,
                   result_backend, DEFAULT_CELERY_CONFIG, celery_ssl_active, log>>


\* lines 30-31 with `in` in place of startswith
_broker_supports_visibility_timeout_anywhere(url) ==
    \E prefix \in {"redis://", "rediss://", "sqs://", "sentinel://"} :
        Contains(url, prefix)

\* lines 30-31
_broker_supports_visibility_timeout(url) ==
    \E prefix \in {"redis://", "rediss://", "sqs://", "sentinel://"} :
        StartsWith(url, prefix)

\* lines 38-41: the section or {}, with the default visibility_timeout
TransportOptions(section, url) ==
    IF "visibility_timeout" \notin DOMAIN section
       /\ _broker_supports_visibility_timeout(url)
    THEN DictSet(section, "visibility_timeout", PyInt(21600))
    ELSE section

\* lines 38-41
ReadTransportOptions ==
    /\ pc = "transport_options"
    /\ \E r \in SectionOutcomes :
        /\ Read("celery_broker_transport_options", r)
        /\ broker_transport_options' =
               TransportOptions(OrEmptyDict(r), broker_url)
    /\ pc' = "sentinel_kwargs"
    /\ UNCHANGED <<broker_url, broker_transport_options_for_celery,
                   result_backend, DEFAULT_CELERY_CONFIG, celery_ssl_active,
                   log, raised>>

SentinelKwargsMsg ==
    "sentinel_kwargs should be written in the correct dictionary format."

\* lines 44-51 without the isinstance test
SentinelKwargsUnchecked(options) == NoException

\* lines 44-51: the exception the block ends with, NoException if none
SentinelKwargsCheck(options) ==
    IF "sentinel_kwargs" \in DOMAIN options
    THEN LET sentinel_kwargs == options["sentinel_kwargs"]
             inner == IF ~IsDict(sentinel_kwargs)
                      THEN Exc("ValueError", "")
                      ELSE NoException
         IN  IF inner # NoException /\ Catches("Exception", inner)
             THEN Exc("AirflowException", SentinelKwargsMsg)
             ELSE inner
    ELSE NoException

\* lines 43-51
CheckSentinelKwargs ==
    /\ pc = "sentinel_kwargs"
    /\ LET e == SentinelKwargsCheck(broker_transport_options)
           copy == broker_transport_options
       IN  IF e = NoException
           THEN /\ broker_transport_options_for_celery' =
                     IF "sentinel_kwargs" \in DOMAIN broker_transport_options
                     THEN DictSet(copy, "sentinel_kwargs",
                                  broker_transport_options["sentinel_kwargs"])
                     ELSE copy
                /\ pc' = "result_backend"
                /\ UNCHANGED raised
           ELSE /\ broker_transport_options_for_celery' = copy
                /\ Fail(e)
    /\ UNCHANGED <<conf, broker_url, broker_transport_options, result_backend,
                   DEFAULT_CELERY_CONFIG, celery_ssl_active, log>>

LogRecord(level, msg) == [level |-> level, msg |-> msg]

ResultBackendDebugMsg ==
    "Value for celery result_backend not found. Using sql_alchemy_conn with db+ prefix."

\* line 57 without the db+ prefix
BareSqlAlchemyConn(sql_alchemy_conn) == sql_alchemy_conn

\* line 57: the f-string
DefaultResultBackend(sql_alchemy_conn) == "db+" \o sql_alchemy_conn

\* lines 53-57
ResolveResultBackend ==
    /\ pc = "result_backend"
    /\ \E rb \in ResultBackendOutcomes :
        IF rb.kind = "value"
        THEN \* has_option is true: get_mandatory_value returns the option
             /\ Read("RESULT_BACKEND", rb)
             /\ result_backend' = rb.val
             /\ pc' = "default_config"
             /\ UNCHANGED <<log, raised>>
        ELSE /\ log' = Append(log, LogRecord("DEBUG", ResultBackendDebugMsg))
             /\ \E sql \in SqlAlchemyConnOutcomes :
                 /\ conf' = [conf EXCEPT !["RESULT_BACKEND"] = rb,
                                         !["SQL_ALCHEMY_CONN"] = sql]
                 /\ IF sql.kind = "value"
                    THEN /\ result_backend' = DefaultResultBackend(sql.val)
                         /\ pc' = "default_config"
                         /\ UNCHANGED raised
                    ELSE /\ Fail(sql.exc)
                         /\ UNCHANGED result_backend
    /\ UNCHANGED <<broker_url, broker_transport_options,
                   broker_transport_options_for_celery, DEFAULT_CELERY_CONFIG,
                   celery_ssl_active>>

\* the conf reads of lines 59-75, in evaluation order
DefaultReads ==
    <<"worker_prefetch_multiplier", "DEFAULT_QUEUE", "task_track_started",
      "result_backend_sqlalchemy_engine_options", "WORKER_CONCURRENCY",
      "worker_enable_remote_control">>

\* the value each of them has when it is readable
DefaultValue(option) ==
    CASE option = "worker_prefetch_multiplier" -> PyInt(1)
      [] option = "DEFAULT_QUEUE" -> PyStr("default")
      [] option = "task_track_started" -> [type |-> "bool", val |-> TRUE]
      [] option = "result_backend_sqlalchemy_engine_options" -> PyDict(EmptyDict)
      [] option = "WORKER_CONCURRENCY" -> PyInt(16)
      [] option = "worker_enable_remote_control" -> [type |-> "bool", val |-> TRUE]

\* lines 59-75: the dict literal, c being the outcomes of the reads
DefaultCeleryConfig(c) ==
    [accept_content |-> [type |-> "list", val |-> <<"json">>],
     event_serializer |-> PyStr("json"),
     worker_prefetch_multiplier |-> c["worker_prefetch_multiplier"].val,
     task_acks_late |-> [type |-> "bool", val |-> TRUE],
     task_default_queue |-> c["DEFAULT_QUEUE"].val,
     task_default_exchange |-> c["DEFAULT_QUEUE"].val,
     task_track_started |-> c["task_track_started"].val,
     broker_url |-> PyStr(broker_url),
     broker_transport_options |-> PyDict(broker_transport_options_for_celery),
     result_backend |-> PyStr(result_backend),
     database_engine_options |-> c["result_backend_sqlalchemy_engine_options"].val,
     worker_concurrency |-> c["WORKER_CONCURRENCY"].val,
     worker_enable_remote_control |-> c["worker_enable_remote_control"].val]

\* lines 59-75: the reads are made in order and the first that raises ends
\* the import before DEFAULT_CELERY_CONFIG is bound
BuildDefaultConfig ==
    /\ pc = "default_config"
    /\ \E failAt \in 0..Len(DefaultReads) :
        LET c == [o \in Options |->
                    IF \E i \in 1..Len(DefaultReads) :
                          /\ DefaultReads[i] = o
                          /\ (failAt = 0 \/ i <= failAt)
                    THEN IF failAt # 0 /\ DefaultReads[failAt] = o
                         THEN NotFound(o)
                         ELSE Value(DefaultValue(o))
                    ELSE conf[o]]
        IN  /\ conf' = c
            /\ IF failAt = 0
               THEN /\ DEFAULT_CELERY_CONFIG' = DefaultCeleryConfig(c)
                    /\ pc' = "ssl_active"
                    /\ UNCHANGED raised
               ELSE /\ Fail(c[DefaultReads[failAt]].exc)
                    /\ UNCHANGED DEFAULT_CELERY_CONFIG
    /\ UNCHANGED <<broker_url, broker_transport_options,
                   broker_transport_options_for_celery, result_backend,
                   celery_ssl_active, log>>


SslActiveOutcomes ==
    {Value(TRUE), Value(FALSE), NotFound("SSL_ACTIVE"),
     Raises("ValueError", "SSL_ACTIVE")}

NoSslWarning == "Celery Executor will run without SSL"

\* lines 78-83 with `return True` in the handler
_get_celery_ssl_active_on(r) ==
    IF r.kind = "value"
    THEN [ret |-> r.val, warnings |-> << >>, exc |-> NoException]
    ELSE IF Catches("AirflowConfigException", r.exc)
         THEN [ret |-> TRUE,
               warnings |-> <<LogRecord("WARNING", NoSslWarning)>>,
               exc |-> NoException]
         ELSE [ret |-> FALSE, warnings |-> << >>, exc |-> r.exc]

\* lines 78-83 with `except Exception`
_get_celery_ssl_active_broad(r) ==
    IF r.kind = "value"
    THEN [ret |-> r.val, warnings |-> << >>, exc |-> NoException]
    ELSE IF Catches("Exception", r.exc)
         THEN [ret |-> FALSE,
               warnings |-> <<LogRecord("WARNING", NoSslWarning)>>,
               exc |-> NoException]
         ELSE [ret |-> FALSE, warnings |-> << >>, exc |-> r.exc]

\* lines 78-83: what the function does with the outcome r of getboolean
_get_celery_ssl_active(r) ==
    IF r.kind = "value"
    THEN [ret |-> r.val, warnings |-> << >>, exc |-> NoException]
    ELSE IF Catches("AirflowConfigException", r.exc)
         THEN [ret |-> FALSE,
               warnings |-> <<LogRecord("WARNING", NoSslWarning)>>,
               exc |-> NoException]
         ELSE [ret |-> FALSE, warnings |-> << >>, exc |-> r.exc]

\* line 86
GetCelerySslActive ==
    /\ pc = "ssl_active"
    /\ \E r \in SslActiveOutcomes :
        LET call == _get_celery_ssl_active(r)
        IN  /\ Read("SSL_ACTIVE", r)
            /\ log' = log \o call.warnings
            /\ IF call.exc = NoException
               THEN /\ celery_ssl_active' = call.ret
                    /\ pc' = "broker_use_ssl"
                    /\ UNCHANGED raised
               ELSE /\ Fail(call.exc)
                    /\ UNCHANGED celery_ssl_active
    /\ UNCHANGED <<broker_url, broker_transport_options,
                   broker_transport_options_for_celery, result_backend,
                   DEFAULT_CELERY_CONFIG>>

\* line 97: rediss?://|sentinel://
BrokerSslPattern == {Alt("redis", "s", "://"), Alt("sentinel://", "", "")}

\* lines 90-108 with the two tests in the other order
BrokerUseSslKeysRedisFirst(url) ==
    IF url # "" /\ Re2Search(BrokerSslPattern, url)
    THEN <<"ssl_keyfile", "ssl_certfile", "ssl_ca_certs", "ssl_cert_reqs">>
    ELSE IF url # "" /\ Contains(url, "amqp://")
         THEN <<"keyfile", "certfile", "ca_certs", "cert_reqs">>
         ELSE << >>

\* lines 90-108: the keys of broker_use_ssl for the broker, in the order of
\* the dict literal; << >> when the else branch is taken
BrokerUseSslKeys(url) ==
    IF url # "" /\ Contains(url, "amqp://")
    THEN <<"keyfile", "certfile", "ca_certs", "cert_reqs">>
    ELSE IF url # "" /\ Re2Search(BrokerSslPattern, url)
         THEN <<"ssl_keyfile", "ssl_certfile", "ssl_ca_certs", "ssl_cert_reqs">>
         ELSE << >>

\* lines 91-96 and 98-103: the dict literal
BrokerUseSsl(keys, ssl_key, ssl_cert, ssl_cacert) ==
    [k \in {keys[i] : i \in 1..4} |->
        IF k = keys[1] THEN PyStr(ssl_key)
        ELSE IF k = keys[2] THEN PyStr(ssl_cert)
        ELSE IF k = keys[3] THEN PyStr(ssl_cacert)
        ELSE [type |-> "VerifyMode", val |-> "CERT_REQUIRED"]]

UnsupportedBrokerMsg ==
    "The broker you configured does not support SSL_ACTIVE to be True. "
    \o "Please use RabbitMQ or Redis if you would like to use SSL for broker."

SslOptionsMsg ==
    "AirflowConfigException: SSL_ACTIVE is True, please ensure SSL_KEY, "
    \o "SSL_CERT and SSL_CACERT are set"

UnknownSslMsg(e) ==
    "Exception: There was an unknown Celery SSL Error. Please ensure you "
    \o "want to use SSL and/or have all necessary certs and key ("
    \o e.msg \o ")."

\* lines 111-121 with the two handlers in the other order
SslExceptHandlersBroadFirst(e) ==
    IF Catches("Exception", e)
    THEN Exc("AirflowException", UnknownSslMsg(e))
    ELSE IF Catches("AirflowConfigException", e)
         THEN Exc("AirflowException", SslOptionsMsg)
         ELSE e

\* lines 111-121: the exception that leaves the try statement when e was
\* raised in its body
SslExceptHandlers(e) ==
    IF Catches("AirflowConfigException", e)
    THEN Exc("AirflowException", SslOptionsMsg)
    ELSE IF Catches("Exception", e)
         THEN Exc("AirflowException", UnknownSslMsg(e))
         ELSE e

SslKeyOutcomes == {Value("/ssl/key.pem"), NotFound("SSL_KEY")}

SslCertOutcomes ==
    {Value("/ssl/cert.pem"), NotFound("SSL_CERT"), Raises("OSError", "SSL_CERT")}

SslCacertOutcomes == {Value("/ssl/ca.pem"), NotFound("SSL_CACERT")}

\* lines 88-121
BuildBrokerUseSsl ==
    /\ pc = "broker_use_ssl"
    /\ IF ~celery_ssl_active
       THEN /\ pc' = "result_backend_warning"
            /\ UNCHANGED <<conf, DEFAULT_CELERY_CONFIG, raised>>
       ELSE LET keys == BrokerUseSslKeys(broker_url)
            IN  IF keys = << >>
                THEN /\ Fail(SslExceptHandlers(
                                Exc("AirflowException", UnsupportedBrokerMsg)))
                     /\ UNCHANGED <<conf, DEFAULT_CELERY_CONFIG>>
                ELSE \E k \in SslKeyOutcomes, c \in SslCertOutcomes,
                        ca \in SslCacertOutcomes :
                        \* the dict literal reads SSL_KEY, SSL_CERT, SSL_CACERT
                        \* in this order and stops at the first that raises
                        LET readCert == k.kind = "value"
                            readCacert == readCert /\ c.kind = "value"
                            ok == readCacert /\ ca.kind = "value"
                            e == IF ~readCert THEN k.exc
                                 ELSE IF ~readCacert THEN c.exc
                                 ELSE ca.exc
                        IN  /\ conf' = [conf EXCEPT
                                  !["SSL_KEY"] = k,
                                  !["SSL_CERT"] = IF readCert THEN c ELSE @,
                                  !["SSL_CACERT"] = IF readCacert THEN ca ELSE @]
                            /\ IF ok
                               THEN /\ DEFAULT_CELERY_CONFIG' =
                                         DictSet(DEFAULT_CELERY_CONFIG,
                                                 "broker_use_ssl",
                                                 PyDict(BrokerUseSsl(keys, k.val,
                                                                     c.val, ca.val)))
                                    /\ pc' = "result_backend_warning"
                                    /\ UNCHANGED raised
                               ELSE /\ Fail(SslExceptHandlers(e))
                                    /\ UNCHANGED DEFAULT_CELERY_CONFIG
    /\ UNCHANGED <<broker_url, broker_transport_options,
                   broker_transport_options_for_celery, result_backend,
                   celery_ssl_active, log>>

\* line 123 with redis:// in place of rediss?://
ResultBackendPatternNoTls ==
    {Alt("redis", "", "://"), Alt("amqp://", "", ""), Alt("rpc://", "", "")}

\* line 123: rediss?://|amqp://|rpc://
ResultBackendPattern ==
    {Alt("redis", "s", "://"), Alt("amqp://", "", ""), Alt("rpc://", "", "")}

ResultBackendWarning(backend) ==
    "You have configured a result_backend of " \o backend
    \o ", it is highly recommended to use an alternative result_backend "
    \o "(i.e. a database)."

\* lines 123-128: the records the statement logs
ResultBackendWarnings(backend) ==
    IF Re2Search(ResultBackendPattern, backend)
    THEN <<LogRecord("WARNING", ResultBackendWarning(backend))>>
    ELSE << >>

\* lines 123-128, after which the import is complete
WarnResultBackend ==
    /\ pc = "result_backend_warning"
    /\ log' = log \o ResultBackendWarnings(result_backend)
    /\ pc' = "done"
    /\ UNCHANGED <<conf, broker_url, broker_transport_options,
                   broker_transport_options_for_celery, result_backend,
                   DEFAULT_CELERY_CONFIG, celery_ssl_active, raised>>

Next ==
    \/ ReadBrokerUrl
    \/ ReadTransportOptions
    \/ CheckSentinelKwargs
    \/ ResolveResultBackend
    \/ BuildDefaultConfig
    \/ GetCelerySslActive
    \/ BuildBrokerUseSsl
    \/ WarnResultBackend

Spec == Init /\ [][Next]_vars

(***************************************************************************)
(* Properties.                                                             *)
(***************************************************************************)

\* C1: when the import succeeds, the broker_transport_options of the
\* configuration is the section that was read (empty if there is none), every
\* key with the value read, plus at most visibility_timeout = 21600, which is
\* added exactly when the section has no visibility_timeout and the broker URL
\* starts with redis://, rediss://, sqs:// or sentinel://.
C1_TransportOptions ==
    pc = "done" =>
        LET read == conf["celery_broker_transport_options"]
            section == IF read.kind = "value" THEN read.val ELSE EmptyDict
            url == conf["BROKER_URL"].val
            out == DEFAULT_CELERY_CONFIG["broker_transport_options"].val
            added == DOMAIN out \ DOMAIN section
            expected ==
                /\ "visibility_timeout" \notin DOMAIN section
                /\ \/ StartsWith(url, "redis://")
                   \/ StartsWith(url, "rediss://")
                   \/ StartsWith(url, "sqs://")
                   \/ StartsWith(url, "sentinel://")
        IN  /\ \A k \in DOMAIN section : k \in DOMAIN out /\ out[k] = section[k]
            /\ added = IF expected THEN {"visibility_timeout"} ELSE {}
            /\ expected => out["visibility_timeout"] = PyInt(21600)

\* a succeeded import in which the default was added next to a user key
C1_Witness ==
    /\ pc = "done"
    /\ conf["celery_broker_transport_options"].kind = "value"
    /\ DOMAIN conf["celery_broker_transport_options"].val = {"region"}
    /\ DOMAIN DEFAULT_CELERY_CONFIG["broker_transport_options"].val
           = {"region", "visibility_timeout"}

\* C2: when the import succeeds, DEFAULT_CELERY_CONFIG has the key
\* broker_use_ssl if and only if SSL_ACTIVE was read as true and the broker
\* URL is non-empty and contains amqp://, redis://, rediss:// or sentinel://;
\* with SSL inactive the key is absent whatever the URL.
C2_BrokerUseSslPresent ==
    pc = "done" =>
        LET active == conf["SSL_ACTIVE"].kind = "value" /\ conf["SSL_ACTIVE"].val
            url == conf["BROKER_URL"].val
            supported ==
                /\ url # ""
                /\ \/ Contains(url, "amqp://")
                   \/ Contains(url, "redis://")
                   \/ Contains(url, "rediss://")
                   \/ Contains(url, "sentinel://")
        IN  /\ "broker_use_ssl" \in DOMAIN DEFAULT_CELERY_CONFIG
                <=> (active /\ supported)
            /\ ~active => "broker_use_ssl" \notin DOMAIN DEFAULT_CELERY_CONFIG

\* a succeeded import with SSL on a sentinel broker
C2_Witness ==
    /\ pc = "done"
    /\ "broker_use_ssl" \in DOMAIN DEFAULT_CELERY_CONFIG
    /\ broker_url = "sentinel://h"

\* C3: once the SSL block has succeeded with SSL active, broker_use_ssl has
\* exactly the keys keyfile, certfile, ca_certs, cert_reqs when the broker URL
\* contains amqp://, and otherwise the URL matches rediss?:// or sentinel://
\* and the keys are ssl_keyfile, ssl_certfile, ssl_ca_certs, ssl_cert_reqs;
\* the values are SSL_KEY, SSL_CERT, SSL_CACERT as read and CERT_REQUIRED.
C3_BrokerUseSslShape ==
    (pc \in {"result_backend_warning", "done"} /\ celery_ssl_active) =>
        /\ "broker_use_ssl" \in DOMAIN DEFAULT_CELERY_CONFIG
        /\ LET m == DEFAULT_CELERY_CONFIG["broker_use_ssl"].val
               key == PyStr(conf["SSL_KEY"].val)
               cert == PyStr(conf["SSL_CERT"].val)
               cacert == PyStr(conf["SSL_CACERT"].val)
               required == [type |-> "VerifyMode", val |-> "CERT_REQUIRED"]
           IN  IF Contains(broker_url, "amqp://")
               THEN m = [keyfile |-> key, certfile |-> cert,
                         ca_certs |-> cacert, cert_reqs |-> required]
               ELSE /\ \/ Contains(broker_url, "redis://")
                       \/ Contains(broker_url, "rediss://")
                       \/ Contains(broker_url, "sentinel://")
                    /\ m = [ssl_keyfile |-> key, ssl_certfile |-> cert,
                            ssl_ca_certs |-> cacert, ssl_cert_reqs |-> required]

\* a succeeded import whose broker URL matches both tests and got the
\* unprefixed keys
C3_Witness ==
    /\ pc = "done"
    /\ broker_url = "redis://amqp://"
    /\ "broker_use_ssl" \in DOMAIN DEFAULT_CELERY_CONFIG
    /\ "keyfile" \in DOMAIN DEFAULT_CELERY_CONFIG["broker_use_ssl"].val

\* C4: with SSL active and a broker URL that is empty or contains none of
\* amqp://, redis://, rediss://, sentinel://, the import fails and the
\* exception that reaches the caller carries the unsupported-broker message,
\* not the missing-SSL-option message nor the unknown-SSL-error message.
C4_UnsupportedBrokerError ==
    (/\ celery_ssl_active
     /\ pc # "broker_use_ssl"
     /\ \/ broker_url = ""
        \/ /\ ~Contains(broker_url, "amqp://")
           /\ ~Contains(broker_url, "redis://")
           /\ ~Contains(broker_url, "rediss://")
           /\ ~Contains(broker_url, "sentinel://"))
    => /\ pc = "failed"
       /\ raised = Exc("AirflowException", UnsupportedBrokerMsg)

\* C5: if broker_transport_options has sentinel_kwargs and the value is not a
\* dict, the import fails with the sentinel_kwargs message and
\* DEFAULT_CELERY_CONFIG is never bound; if it is a dict, the options for
\* celery, and the configuration built from them, carry the value that was
\* read; if the key is absent, the sentinel_kwargs error is never raised.
C5_SentinelKwargs ==
    pc \notin {"broker_url", "transport_options", "sentinel_kwargs"} =>
        LET options == broker_transport_options
            section == conf["celery_broker_transport_options"]
        IN  IF "sentinel_kwargs" \notin DOMAIN options
            THEN raised.msg # SentinelKwargsMsg
            ELSE IF options["sentinel_kwargs"].type # "dict"
            THEN /\ pc = "failed"
                 /\ raised = Exc("AirflowException", SentinelKwargsMsg)
                 /\ DEFAULT_CELERY_CONFIG = EmptyDict
            ELSE /\ raised.msg # SentinelKwargsMsg
                 /\ broker_transport_options_for_celery["sentinel_kwargs"]
                        = section.val["sentinel_kwargs"]
                 /\ pc = "done" =>
                        DEFAULT_CELERY_CONFIG["broker_transport_options"]
                            .val["sentinel_kwargs"]
                        = section.val["sentinel_kwargs"]

\* an import ended by the sentinel_kwargs error although a visibility_timeout
\* was supplied
C5_Witness ==
    /\ pc = "failed"
    /\ raised.msg = SentinelKwargsMsg
    /\ DOMAIN broker_transport_options = {"sentinel_kwargs", "visibility_timeout"}
    /\ broker_transport_options["visibility_timeout"] = PyInt(3600)

\* C6: once result_backend is resolved it is RESULT_BACKEND when the option is
\* set, and SQL_ALCHEMY_CONN is then never read; it is "db+" followed by
\* SQL_ALCHEMY_CONN when the option is not set, and the import then passes
\* this statement whenever SQL_ALCHEMY_CONN is readable.  The configuration of
\* a succeeded import carries that value.
C6_ResultBackend ==
    LET rb == conf["RESULT_BACKEND"]
        sql == conf["SQL_ALCHEMY_CONN"]
    IN  /\ rb.kind = "value" =>
               /\ result_backend = rb.val
               /\ sql = Unread
        /\ (rb = Absent /\ sql.kind = "value") =>
               /\ result_backend = "db+" \o sql.val
               /\ pc # "result_backend"
               /\ pc = "failed" => conf["worker_prefetch_multiplier"] # Unread
        /\ (rb = Absent /\ sql.kind # "value") =>
               /\ pc = "failed"
               /\ raised = sql.exc
        /\ pc = "done" =>
               /\ rb # Unread
               /\ DEFAULT_CELERY_CONFIG["result_backend"] = PyStr(result_backend)

\* a succeeded import without RESULT_BACKEND
C6_Witness ==
    /\ pc = "done"
    /\ conf["RESULT_BACKEND"] = Absent
    /\ DEFAULT_CELERY_CONFIG["result_backend"] = PyStr("db+postgresql://h")

\* C7: if reading SSL_ACTIVE raises AirflowConfigException, the import goes
\* on: the "will run without SSL" warning is logged, celery_ssl_active is
\* false, SSL_KEY, SSL_CERT and SSL_CACERT are never read, no exception is
\* raised and the configuration has no broker_use_ssl.  If the read raises
\* anything else, the import fails with that exception.
C7_SslActiveUnreadable ==
    LET r == conf["SSL_ACTIVE"]
    IN  r.kind = "raises" =>
            IF r.exc.type = "AirflowConfigException"
            THEN /\ pc \in {"broker_use_ssl", "result_backend_warning", "done"}
                 /\ raised = NoException
                 /\ \E i \in 1..Len(log) :
                        log[i] = LogRecord("WARNING", NoSslWarning)
                 /\ ~celery_ssl_active
                 /\ \A o \in {"SSL_KEY", "SSL_CERT", "SSL_CACERT"} :
                        conf[o] = Unread
                 /\ "broker_use_ssl" \notin DOMAIN DEFAULT_CELERY_CONFIG
            ELSE /\ pc = "failed"
                 /\ raised = r.exc

\* a succeeded import in which the SSL_ACTIVE read raised
\* AirflowConfigException on a broker that supports SSL
C7_Witness ==
    /\ pc = "done"
    /\ conf["SSL_ACTIVE"] = NotFound("SSL_ACTIVE")
    /\ broker_url = "amqp://h"

\* C8: with SSL active on a broker that supports SSL, if the read of SSL_KEY,
\* SSL_CERT or SSL_CACERT raises AirflowConfigException, the import fails with
\* the message that SSL_KEY, SSL_CERT and SSL_CACERT must be set, and
\* broker_use_ssl is not in the configuration.
C8_SslOptionMissing ==
    (\E o \in {"SSL_KEY", "SSL_CERT", "SSL_CACERT"} :
        /\ conf[o].kind = "raises"
        /\ conf[o].exc.type = "AirflowConfigException")
    => /\ pc = "failed"
       /\ raised = Exc("AirflowException", SslOptionsMsg)
       /\ "broker_use_ssl" \notin DOMAIN DEFAULT_CELERY_CONFIG

\* an import that failed because SSL_CACERT, the last of the three, is not set
C8_Witness ==
    /\ pc = "failed"
    /\ celery_ssl_active
    /\ conf["SSL_KEY"].kind = "value"
    /\ conf["SSL_CERT"].kind = "value"
    /\ conf["SSL_CACERT"] = NotFound("SSL_CACERT")

\* the result-backend warning has been logged
BackendWarned ==
    \E i \in 1..Len(log) :
        log[i] = LogRecord("WARNING", ResultBackendWarning(result_backend))

\* result_backend contains redis://, rediss://, amqp:// or rpc://
BackendMatches ==
    \/ Contains(result_backend, "redis://")
    \/ Contains(result_backend, "rediss://")
    \/ Contains(result_backend, "amqp://")
    \/ Contains(result_backend, "rpc://")

\* C9 as stated: every import that resolved a result_backend containing
\* redis://, rediss://, amqp:// or rpc:// has, when it ends, logged the
\* result-backend warning; the warning never comes with a failure, and it is
\* never logged for another result_backend.
C9_Original ==
    pc \in {"done", "failed"} =>
        /\ (result_backend # "" /\ BackendMatches) => BackendWarned
        /\ BackendWarned => (BackendMatches /\ raised = NoException)

\* C9 amended: an import that runs to its end has logged the result-backend
\* warning if and only if result_backend contains redis://, rediss://, amqp://
\* or rpc://; an import that fails has not logged it, so the warning never
\* comes with a failure; and the configuration holds the result_backend, and
\* the broker_use_ssl, it had before the warning.
C9_BackendWarning ==
    /\ pc = "done" =>
           /\ BackendWarned <=> BackendMatches
           /\ raised = NoException
           /\ DEFAULT_CELERY_CONFIG["result_backend"] = PyStr(result_backend)
           /\ celery_ssl_active <=> "broker_use_ssl" \in DOMAIN DEFAULT_CELERY_CONFIG
    /\ pc # "done" => ~BackendWarned

\* a succeeded import that logged the warning for an unanchored match
C9_Witness ==
    /\ pc = "done"
    /\ result_backend = "sqla+rpc://h"
    /\ BackendWarned

\* C10: the statements run in a fixed order and the first failure ends the
\* import: RESULT_BACKEND is read only after the sentinel_kwargs check has
\* passed, SSL_ACTIVE only after result_backend is resolved, the SSL options
\* only after SSL_ACTIVE, and the result-backend warning is logged only after
\* the SSL block.  So when sentinel_kwargs is not a dict the import fails with
\* the sentinel_kwargs error whatever was configured for SSL, nothing is
\* logged and neither RESULT_BACKEND nor any SSL option is read.
C10_Order ==
    LET options == broker_transport_options
        badSentinel ==
            /\ "sentinel_kwargs" \in DOMAIN options
            /\ options["sentinel_kwargs"].type # "dict"
        sslOptions == {"SSL_KEY", "SSL_CERT", "SSL_CACERT"}
    IN  /\ (badSentinel /\ pc # "sentinel_kwargs") =>
               /\ pc = "failed"
               /\ raised = Exc("AirflowException", SentinelKwargsMsg)
               /\ log = << >>
               /\ \A o \in Options \ {"BROKER_URL", "celery_broker_transport_options"} :
                      conf[o] = Unread
        /\ conf["RESULT_BACKEND"] # Unread =>
               /\ ~badSentinel
               /\ conf["celery_broker_transport_options"] # Unread
        /\ conf["SSL_ACTIVE"] # Unread =>
               /\ conf["RESULT_BACKEND"] # Unread
               /\ result_backend # ""
        /\ (\E o \in sslOptions : conf[o] # Unread) =>
               /\ conf["SSL_ACTIVE"] = Value(TRUE)
               /\ BackendWarned => \A o \in sslOptions : conf[o].kind = "value"
        /\ BackendWarned =>
               /\ conf["SSL_ACTIVE"] # Unread
               /\ celery_ssl_active => "broker_use_ssl" \in DOMAIN DEFAULT_CELERY_CONFIG
        /\ pc = "failed" => (raised # NoException /\ ~BackendWarned)

\* an import that failed on sentinel_kwargs on a broker that supports SSL
C10_Witness ==
    /\ pc = "failed"
    /\ broker_url = "rediss://h"
    /\ "sentinel_kwargs" \in DOMAIN broker_transport_options
    /\ ~IsDict(broker_transport_options["sentinel_kwargs"])
    /\ conf["SSL_ACTIVE"] = Unread

====
